---- MODULE Spec2Model ----
(***************************************************************************)
(* Model of Event<Args...> (src/event.hpp) for a one-argument event, as    *)
(* used by src/example.cpp.                                                *)
(*                                                                         *)
(* The subscriber table is the std::unordered_map<Identifier, Handler> of  *)
(* event.hpp:236, modelled as a function from identifiers to handlers.     *)
(* Identifiers are uint64_t values; they are kept as four 16-bit limbs     *)
(* (least significant first) so that _identify's arithmetic is computed    *)
(* modulo 2^64 exactly.                                                    *)
(***************************************************************************)
EXTENDS Integers, Sequences, FiniteSets, TLC

VARIABLES
    subscribers,   \* event.hpp:236, Identifier -> Handler
    calls,         \* the handler invocations made by the most recent fire
    lastOp,        \* the most recent operation, its inputs, and the table before it
    bindState,     \* history: per (member, receiver) pair "never" | "bound" | "unbound"
    regSeq,        \* history: the table's identifiers in the order they were inserted
    flipped,       \* the table of a run in which every bind uses the other flag
    nops,          \* number of operations performed so far
    stack,         \* the fires in progress, outermost first: one frame per range-for
    invoked,       \* the handler invocations made since the outermost fire began
    outcome,       \* how the most recent outermost fire stands or ended
    liveIds,       \* history: identities registered and not unbound since
    saved          \* history: the table before a bind that an unbind follows

vars == <<subscribers, calls, lastOp, bindState, regSeq, flipped, nops,
          stack, invoked, outcome, liveIds, saved>>

\* what a step of one kind of run leaves alone
dispatchVars == <<stack, invoked, outcome>>
historyVars == <<liveIds, saved>>

-----------------------------------------------------------------------------
(* Bounds *)

MaxOps == 6

-----------------------------------------------------------------------------
(* uint64_t arithmetic on 16-bit limbs *)

LimbBase == 65536

Zero64 == <<0, 0, 0, 0>>

\* (c * k + m) mod 2^64, limb by limb with carry
MulAdd64(c, k, m) ==
    LET t1 == c[1] * k + m[1]
        t2 == c[2] * k + m[2] + (t1 \div LimbBase)
        t3 == c[3] * k + m[3] + (t2 \div LimbBase)
        t4 == c[4] * k + m[4] + (t3 \div LimbBase)
    IN  <<t1 % LimbBase, t2 % LimbBase, t3 % LimbBase, t4 % LimbBase>>

-----------------------------------------------------------------------------
(* The objects of a run: receivers, member functions, lambdas, and where   *)
(* they live.                                                              *)

EventFlag == {"DEFAULT", "ONLY_UNIQUE"}

Receivers == {"r1", "r2"}
Members   == {"H1", "H2"}
Lambdas   == {"L1", "L2"}
EventArgs == {"x", "y"}

\* r1 = 0x7ffd00001000, r2 = r1 + 8: two adjacent 8-byte objects
InstanceAddress(r) ==
    IF r = "r1" THEN <<4096, 0, 32765, 0>> ELSE <<4104, 0, 32765, 0>>

\* The first 8 bytes of a pointer to a non-virtual member function hold the
\* function's address: H1 = 0x401150, H2 = 0x401100 (80 bytes apart)
MemberAddress(m) ==
    IF m = "H1" THEN <<4432, 64, 0, 0>> ELSE <<4352, 64, 0, 0>>

\* &lambda, the address of operator+='s by-value parameter: 0x7ffce66cde80
LambdaAddress == <<56960, 58988, 32764, 0>>

\* AddressCast<int>(0).address: the int occupies the low 4 bytes of the
\* union, the high 4 bytes are never written. The values the read can give:
IntCastJunk == {<<0, 0>>, <<1, 0>>}

AddressCastInt(v, junk) == <<v % LimbBase, v \div LimbBase, junk[1], junk[2]>>

\* A Handler: std::bind(member, instance, _1), or a lambda
BoundMember(m, r) == [fn |-> m, obj |-> r]
Lambda(l) == [fn |-> l, obj |-> "none"]

Pairs == Members \X Receivers

-----------------------------------------------------------------------------
(* Event's private helpers *)

\* a slip in which the receiver does not enter the identity
_identify_memberOnly(_class, _member) == MulAdd64(Zero64, 10, _member)

_identify(_class, _member) == MulAdd64(_class, 10, _member)

hasSubscriber(tbl, a) == a \in DOMAIN tbl

\* a slip in which the entry is assigned (subscribers[a] = h)
MapInsert_assigns(tbl, a, h) ==
    (a :> h) @@ [k \in DOMAIN tbl \ {a} |-> tbl[k]]

\* std::unordered_map::insert: no effect when the key is present
MapInsert(tbl, a, h) ==
    IF a \in DOMAIN tbl THEN tbl ELSE (a :> h) @@ tbl

\* a slip in which the uniqueness test is inverted
_addToList_inverted(tbl, a, h, flag) ==
    IF flag = "ONLY_UNIQUE" /\ ~hasSubscriber(tbl, a)
    THEN tbl
    ELSE MapInsert(tbl, a, h)

\* a slip in which DEFAULT replaces the stored callable
_addToList_replaces(tbl, a, h, flag) ==
    IF flag = "ONLY_UNIQUE" /\ hasSubscriber(tbl, a)
    THEN tbl
    ELSE (a :> h) @@ [k \in DOMAIN tbl \ {a} |-> tbl[k]]

_addToList(tbl, a, h, flag) ==
    IF flag = "ONLY_UNIQUE" /\ hasSubscriber(tbl, a)
    THEN tbl
    ELSE MapInsert(tbl, a, h)

\* a slip in which the found entry is not erased
_removeFromList_keeps(tbl, a) == tbl

_removeFromList(tbl, a) ==
    IF a \in DOMAIN tbl
    THEN [k \in DOMAIN tbl \ {a} |-> tbl[k]]
    ELSE tbl

\* Every order in which a range-for can visit the keys of an unordered_map
RECURSIVE IterationOrders(_)
IterationOrders(S) ==
    IF S = {} THEN {<< >>}
    ELSE UNION {{<<k>> \o rest : rest \in IterationOrders(S \ {k})} : k \in S}

OtherFlag(flag) == IF flag = "DEFAULT" THEN "ONLY_UNIQUE" ELSE "DEFAULT"

\* history bookkeeping of the insertion order
Registered(seq, tbl, tbl2, a) ==
    IF a \in DOMAIN tbl2 /\ a \notin DOMAIN tbl THEN Append(seq, a) ELSE seq

Unregistered(seq, a) == SelectSeq(seq, LAMBDA k : k # a)

NoHandler == [fn |-> "none", obj |-> "none"]

\* no fire has begun since the last top-level operation
NoFire == [state |-> "idle", snap |-> << >>, before |-> << >>, todo |-> << >>]

NothingSaved == [phase |-> "none", tbl |-> << >>, pair |-> <<"none", "none">>]

Op(op, a, h, flag, arg) ==
    [op |-> op, id |-> a, h |-> h, flag |-> flag, arg |-> arg,
     before |-> subscribers]

-----------------------------------------------------------------------------
(* Operations *)

Init ==
    /\ subscribers = << >>
    /\ calls = << >>
    /\ lastOp = [op |-> "none", id |-> Zero64, h |-> NoHandler, flag |-> "none",
                 arg |-> "none", before |-> << >>]
    /\ bindState = [p \in Pairs |-> "never"]
    /\ regSeq = << >>
    /\ flipped = << >>
    /\ nops = 0
    /\ stack = << >>
    /\ invoked = << >>
    /\ outcome = NoFire
    /\ liveIds = {}
    /\ saved = NothingSaved

\* event.bind(&C::member, instance, flag)
Bind(m, r, flag) ==
    LET a == _identify(InstanceAddress(r), MemberAddress(m))
        h == BoundMember(m, r)
    IN  /\ nops < MaxOps
        /\ subscribers' = _addToList(subscribers, a, h, flag)
        /\ flipped' = _addToList(flipped, a, h, OtherFlag(flag))
        /\ regSeq' = Registered(regSeq, subscribers, subscribers', a)
        /\ bindState' = [bindState EXCEPT ![<<m, r>>] = "bound"]
        /\ lastOp' = Op("bind", a, h, flag, "none")
        /\ calls' = << >>
        /\ nops' = nops + 1

\* event.unbind(&C::member, instance)
Unbind(m, r) ==
    LET a == _identify(InstanceAddress(r), MemberAddress(m))
    IN  /\ nops < MaxOps
        /\ subscribers' = _removeFromList(subscribers, a)
        /\ flipped' = _removeFromList(flipped, a)
        /\ regSeq' = Unregistered(regSeq, a)
        /\ bindState' = [bindState EXCEPT ![<<m, r>>] =
                            IF @ = "never" THEN "never" ELSE "unbound"]
        /\ lastOp' = Op("unbind", a, BoundMember(m, r), "none", "none")
        /\ calls' = << >>
        /\ nops' = nops + 1

\* event += lambda
Subscribe(l, junk) ==
    LET a == _identify(LambdaAddress, AddressCastInt(0, junk))
        h == Lambda(l)
    IN  /\ nops < MaxOps
        /\ subscribers' = _addToList(subscribers, a, h, "DEFAULT")
        /\ flipped' = _addToList(flipped, a, h, "DEFAULT")
        /\ regSeq' = Registered(regSeq, subscribers, subscribers', a)
        /\ lastOp' = Op("subscribe", a, h, "DEFAULT", "none")
        /\ calls' = << >>
        /\ nops' = nops + 1
        /\ UNCHANGED bindState

\* a slip in which the loop stops one entry short
Dispatch_short(e, order) ==
    [i \in 1..(Len(order) - 1) |->
        [id |-> order[i], h |-> subscribers[order[i]], arg |-> e]]

\* the range-for of fire: every entry's handler is called with e
Dispatch(e, order) ==
    [i \in 1..Len(order) |->
        [id |-> order[i], h |-> subscribers[order[i]], arg |-> e]]

\* event.fire(e)
Fire(e) ==
    /\ nops < MaxOps
    /\ \E order \in IterationOrders(DOMAIN subscribers) :
          calls' = Dispatch(e, order)
    /\ lastOp' = Op("fire", Zero64, NoHandler, "none", e)
    /\ nops' = nops + 1
    /\ UNCHANGED <<subscribers, bindState, regSeq, flipped>>

\* event(e): operator() doubles as fire
Call(e) == Fire(e)

\* a step of a run that neither dispatches stepwise nor keeps these histories
Plain == UNCHANGED <<dispatchVars, historyVars>>

Next ==
    \/ \E m \in Members, r \in Receivers, flag \in EventFlag :
          Bind(m, r, flag) /\ Plain
    \/ \E m \in Members, r \in Receivers : Unbind(m, r) /\ Plain
    \/ \E l \in Lambdas, junk \in IntCastJunk : Subscribe(l, junk) /\ Plain
    \/ \E e \in EventArgs : Fire(e) /\ Plain
    \/ \E e \in EventArgs : Call(e) /\ Plain

Spec == Init /\ [][Next]_vars

-----------------------------------------------------------------------------
(* Vocabulary of the properties *)

IdOf(p) == _identify(InstanceAddress(p[2]), MemberAddress(p[1]))

\* the table tbl holds the subscription of handler h under identity a
Holds(tbl, a, h) == a \in DOMAIN tbl /\ tbl[a] = h

LiveIn(tbl, p) == Holds(tbl, IdOf(p), BoundMember(p[1], p[2]))

Size(tbl) == Cardinality(DOMAIN tbl)

\* the invocations of handler h made by the most recent fire
CallsOf(h) == {i \in DOMAIN calls : calls[i].h = h}

InvokedOnceWith(h, e) ==
    /\ Cardinality(CallsOf(h)) = 1
    /\ \A i \in CallsOf(h) : calls[i].arg = e

PairOf(h) == <<h.fn, h.obj>>

-----------------------------------------------------------------------------
(* C1: once bind(m, r) has been called and unbind(m, r) has not been called *)
(* since, every fire(e) invokes member m on receiver r exactly once, with   *)
(* argument e, whatever else was bound before or after.                     *)
C1_BoundMemberInvokedOncePerFire ==
    lastOp.op = "fire" =>
        \A p \in Pairs :
            bindState[p] = "bound" =>
                InvokedOnceWith(BoundMember(p[1], p[2]), lastOp.arg)

C3_UnbindNeverBoundIsNoOp ==
    (lastOp.op = "unbind" /\ bindState[PairOf(lastOp.h)] = "never") =>
        /\ Size(subscribers) = Size(lastOp.before)
        /\ subscribers = lastOp.before

-----------------------------------------------------------------------------
(* An end-to-end use of one Event by a subscriber object, with the calls   *)
(* example.cpp's Consumer makes: two members of one receiver and one       *)
(* lambda are subscribed, the event fires, the second member is unbound,   *)
(* the event fires again.                                                  *)

ScenarioBindH1 ==
    nops = 0 /\ \E r \in Receivers, flag \in EventFlag : Bind("H1", r, flag)

ScenarioBindH2 ==
    /\ nops = 1
    /\ \E r \in Receivers, flag \in EventFlag :
          bindState[<<"H1", r>>] = "bound" /\ Bind("H2", r, flag)

ScenarioSubscribe ==
    nops = 2 /\ \E l \in Lambdas, junk \in IntCastJunk : Subscribe(l, junk)

ScenarioFireX ==
    nops = 3 /\ \E e \in EventArgs : Fire(e)

ScenarioUnbindH2 ==
    /\ nops = 4
    /\ \E r \in Receivers : bindState[<<"H2", r>>] = "bound" /\ Unbind("H2", r)

ScenarioFireY ==
    nops = 5 /\ \E e \in EventArgs : Fire(e)

ScenarioNext ==
    \/ ScenarioBindH1 /\ Plain
    \/ ScenarioBindH2 /\ Plain
    \/ ScenarioSubscribe /\ Plain
    \/ ScenarioFireX /\ Plain
    \/ ScenarioUnbindH2 /\ Plain
    \/ ScenarioFireY /\ Plain

SpecScenario == Init /\ [][ScenarioNext]_vars

\* the receiver of the scenario
ScenarioReceiver == CHOOSE r \in Receivers : bindState[<<"H1", r>>] = "bound"

(* C5: in the scenario the first fire invokes H1, H2 and the lambda, each   *)
(* exactly once with the fired argument, and nothing else; the fire after   *)
(* unbind(H2, R) invokes exactly H1 and the lambda, each once.              *)
C5_EndToEnd ==
    /\ nops = 4 =>
          /\ InvokedOnceWith(BoundMember("H1", ScenarioReceiver), lastOp.arg)
          /\ InvokedOnceWith(BoundMember("H2", ScenarioReceiver), lastOp.arg)
          /\ \E l \in Lambdas : InvokedOnceWith(Lambda(l), lastOp.arg)
          /\ Len(calls) = 3
    /\ nops = 6 =>
          /\ InvokedOnceWith(BoundMember("H1", ScenarioReceiver), lastOp.arg)
          /\ CallsOf(BoundMember("H2", ScenarioReceiver)) = {}
          /\ \E l \in Lambdas : InvokedOnceWith(Lambda(l), lastOp.arg)
          /\ Len(calls) = 2

-----------------------------------------------------------------------------
\* the identities in the order the most recent fire visited them
FiredIds == [i \in DOMAIN calls |-> calls[i].id]

(* C6: every fire invokes the subscribers in registration order: the       *)
(* identities are visited in the order in which their entries were          *)
(* inserted.                                                                *)
C6_FiresInRegistrationOrder ==
    lastOp.op = "fire" => FiredIds = regSeq

\* What fire does guarantee: every entry of the table is invoked exactly
\* once, with its own handler and the fired argument, in some order.
FireVisitsEveryEntryOnce ==
    lastOp.op = "fire" =>
        /\ Len(calls) = Size(subscribers)
        /\ \A a \in DOMAIN subscribers :
              \E i \in DOMAIN calls :
                  /\ calls[i] = [id |-> a, h |-> subscribers[a], arg |-> lastOp.arg]
                  /\ \A j \in DOMAIN calls : calls[j].id = a => j = i

(* C7: right after a bind or subscribe that derived identity id,            *)
(* hasSubscriber(id) is true; right after an unbind of id it is false.      *)
C7_HasSubscriberAfterBindAndUnbind ==
    /\ lastOp.op \in {"bind", "subscribe"} =>
           hasSubscriber(subscribers, lastOp.id)
    /\ lastOp.op = "unbind" => ~hasSubscriber(subscribers, lastOp.id)

\* an unbind removed an entry that a bind under ONLY_UNIQUE had inserted
C7_Witness ==
    /\ lastOp.op = "unbind"
    /\ hasSubscriber(lastOp.before, lastOp.id)
    /\ ~hasSubscriber(subscribers, lastOp.id)
    /\ Size(subscribers) >= 1

(* C8: the run in which every bind uses the other flag has the same table   *)
(* after every step, each bind gives the table the other flag would give,   *)
(* and every fire makes the invocations the other run's table gives.        *)
C8_FlagsObservablyIdentical ==
    /\ subscribers = flipped
    /\ lastOp.op = "bind" =>
           subscribers = _addToList(lastOp.before, lastOp.id, lastOp.h,
                                    OtherFlag(lastOp.flag))
    /\ lastOp.op = "fire" =>
           {calls[i] : i \in DOMAIN calls} =
               {[id |-> a, h |-> flipped[a], arg |-> lastOp.arg] :
                    a \in DOMAIN flipped}

\* a DEFAULT bind met an identity that another callable already holds
C8_Witness ==
    /\ lastOp.op = "bind"
    /\ lastOp.flag = "DEFAULT"
    /\ hasSubscriber(lastOp.before, lastOp.id)
    /\ lastOp.before[lastOp.id] # lastOp.h
    /\ flipped = subscribers

(* C9: a DEFAULT bind whose identity is already a key changes nothing: the  *)
(* entry keeps the callable registered first, and a fire invokes that one.  *)
C9_DefaultDuplicateIgnored ==
    /\ (/\ lastOp.op = "bind"
        /\ lastOp.flag = "DEFAULT"
        /\ hasSubscriber(lastOp.before, lastOp.id)) =>
           /\ subscribers = lastOp.before
           /\ subscribers[lastOp.id] = lastOp.before[lastOp.id]
    /\ lastOp.op = "fire" =>
           \A i \in DOMAIN calls :
               calls[i].h = lastOp.before[calls[i].id]

\* the ignored DEFAULT bind carried a callable other than the stored one
C9_Witness ==
    /\ lastOp.op = "bind"
    /\ lastOp.flag = "DEFAULT"
    /\ hasSubscriber(lastOp.before, lastOp.id)
    /\ subscribers[lastOp.id] # lastOp.h
    /\ subscribers[lastOp.id].obj # "none"

(* C10 as stated: after subscribe the table has either grown by the new     *)
(* entry, or, on a collision, kept its size with the existing entry         *)
(* overwritten by the new callable.                                         *)
C10_SubscribeOverwritesOnCollision ==
    lastOp.op = "subscribe" =>
        \/ /\ ~hasSubscriber(lastOp.before, lastOp.id)
           /\ subscribers = (lastOp.id :> lastOp.h) @@ lastOp.before
        \/ /\ hasSubscriber(lastOp.before, lastOp.id)
           /\ Size(subscribers) = Size(lastOp.before)
           /\ subscribers[lastOp.id] = lastOp.h

(* C10 as amended: after subscribe the table has either grown by exactly    *)
(* the new entry, or, on a collision, is exactly the table before: the      *)
(* existing entry is kept and the new callable is dropped.                  *)
C10_SubscribeKeepsOnCollision ==
    lastOp.op = "subscribe" =>
        \/ /\ ~hasSubscriber(lastOp.before, lastOp.id)
           /\ Size(subscribers) = Size(lastOp.before) + 1
           /\ subscribers = (lastOp.id :> lastOp.h) @@ lastOp.before
        \/ /\ hasSubscriber(lastOp.before, lastOp.id)
           /\ Size(subscribers) = Size(lastOp.before)
           /\ subscribers = lastOp.before

\* a subscribe collided with an entry holding another callable
C10_Witness ==
    /\ lastOp.op = "subscribe"
    /\ hasSubscriber(lastOp.before, lastOp.id)
    /\ lastOp.before[lastOp.id] # lastOp.h

-----------------------------------------------------------------------------
(* C14: the identifier _identify computes is unique: any two distinct       *)
(* (member, instance) pairs that were bound have distinct identifiers       *)
(* (instance * 10 + member, modulo 2^64).                                   *)
C14_IdentifiersUnique ==
    \A p \in Pairs, q \in Pairs :
        (p # q /\ bindState[p] # "never" /\ bindState[q] # "never") =>
            IdOf(p) # IdOf(q)

(* C17: an anonymous subscription cannot be removed by identity: no         *)
(* unbind(m, r) removes the entry of a lambda, so the entry stays in the    *)
(* table and every later fire invokes it.                                   *)
C17_LambdaSurvivesUnbind ==
    lastOp.op = "unbind" =>
        \A a \in DOMAIN lastOp.before :
            lastOp.before[a].obj = "none" =>
                Holds(subscribers, a, lastOp.before[a])

-----------------------------------------------------------------------------
(* Dispatch step by step: fire's range-for as one step per subscriber, so   *)
(* that a handler can raise, change the table, or fire the event again      *)
(* while it is being invoked (event.hpp:74-77).                             *)

MaxDepth == 2

\* operations before the fire of a stepwise run
MaxSetup == 2

\* one range-for in progress: the argument, the order in which begin()..end()
\* walks the table, the entries still to visit, the entry whose handler is
\* running a nested fire, and where the frame's invocations start
Frame(e, order, n) ==
    [arg |-> e, order |-> order, todo |-> order, cur |-> Zero64, start |-> n]

Depth == Len(stack)

Top == stack[Len(stack)]

SetTop(f) == [stack EXCEPT ![Len(stack)] = f]

\* the loop's iterator moves on to the next entry
Advanced == SetTop([Top EXCEPT !.todo = Tail(@)])

\* subscriber.second(e...) on the entry the iterator is at
Invocation ==
    [id |-> Head(Top.todo), h |-> subscribers[Head(Top.todo)],
     arg |-> Top.arg, depth |-> Depth]

Invoking == stack # << >> /\ Top.todo # << >>

\* the one subscriber whose handler calls the event while it is invoked;
\* every other handler only returns or throws
ReentrantHandler == BoundMember("H1", "r1")

Reenters == Invoking /\ Invocation.h = ReentrantHandler

RECURSIVE DistinctSeqs(_)
\* every sequence of distinct elements of S
DistinctSeqs(S) ==
    {<< >>} \cup UNION {{<<k>> \o rest : rest \in DistinctSeqs(S \ {k})} : k \in S}

\* What the iterator still visits after the running handler erased identity a.
\* Erasing another entry only removes it from the walk; erasing the entry the
\* iterator is at leaves the iterator dangling, and ++it is undefined: the
\* walk goes on from the stale link or stops.
AfterErase(a) ==
    IF a \notin DOMAIN subscribers THEN {Tail(Top.todo)}
    ELSE IF a = Head(Top.todo) THEN {Tail(Top.todo), << >>}
    ELSE {SelectSeq(Tail(Top.todo), LAMBDA k : k # a)}

\* What the iterator still visits after the running handler inserted identity
\* a. Nothing changes when the key was present. Otherwise the new node, and
\* after a rehash every node, is linked anywhere in the list: the iterator
\* goes on to any run of entries other than its own.
AfterInsert(a) ==
    IF a \in DOMAIN subscribers THEN {Tail(Top.todo)}
    ELSE DistinctSeqs((DOMAIN subscribers \cup {a}) \ {Head(Top.todo)})

\* a slip in which fire throws when there is nothing to call
Begun_throwsOnEmpty(e, order) ==
    IF order = << >>
    THEN /\ stack' = << >>
         /\ outcome' = [NoFire EXCEPT !.state = "raised", !.snap = subscribers,
                                      !.before = subscribers]
    ELSE /\ stack' = <<Frame(e, order, 0)>>
         /\ outcome' = [NoFire EXCEPT !.state = "running", !.snap = subscribers]

\* the range-for of an outermost fire starts at begin()
Begun(e, order) ==
    /\ stack' = <<Frame(e, order, 0)>>
    /\ outcome' = [NoFire EXCEPT !.state = "running", !.snap = subscribers]

\* event.fire(e), called by the publisher
FireBegin(e) ==
    /\ stack = << >>
    /\ outcome = NoFire
    /\ \E order \in IterationOrders(DOMAIN subscribers) : Begun(e, order)
    /\ invoked' = << >>
    /\ lastOp' = Op("fire", Zero64, NoHandler, "none", e)
    /\ calls' = << >>
    /\ nops' = nops + 1
    /\ UNCHANGED <<subscribers, bindState, regSeq, flipped, historyVars>>

\* event(e), called by the publisher
CallBegin(e) == FireBegin(e)

\* the invoked handler returns without touching the event
HandlerReturns ==
    /\ Invoking
    /\ invoked' = Append(invoked, Invocation)
    /\ stack' = Advanced
    /\ UNCHANGED <<subscribers, calls, lastOp, bindState, regSeq, flipped, nops,
                   outcome, historyVars>>

\* a slip in which fire swallows the exception and goes on
Unwound_swallowed == stack' = Advanced

\* the exception leaves every fire in progress
Unwound == stack' = << >>

\* the invoked handler throws
HandlerRaises ==
    /\ Invoking
    /\ invoked' = Append(invoked, Invocation)
    /\ Unwound
    /\ outcome' = [outcome EXCEPT !.state = "raised", !.before = subscribers,
                                  !.todo = Top.todo]
    /\ UNCHANGED <<subscribers, calls, lastOp, bindState, regSeq, flipped, nops,
                   historyVars>>

\* the invoked handler calls event.unbind(&C::member, instance) and returns
HandlerUnbinds(m, r) ==
    /\ Reenters
    /\ invoked' = Append(invoked, Invocation)
    /\ Unbind(m, r)
    /\ \E rest \in AfterErase(IdOf(<<m, r>>)) :
          stack' = SetTop([Top EXCEPT !.todo = rest])
    /\ UNCHANGED <<outcome, historyVars>>

\* the invoked handler calls event.bind(&C::member, instance, flag) and returns
HandlerBinds(m, r, flag) ==
    /\ Reenters
    /\ invoked' = Append(invoked, Invocation)
    /\ Bind(m, r, flag)
    /\ \E rest \in AfterInsert(IdOf(<<m, r>>)) :
          stack' = SetTop([Top EXCEPT !.todo = rest])
    /\ UNCHANGED <<outcome, historyVars>>

\* the invoked handler calls event += lambda and returns
HandlerSubscribes(l, junk) ==
    /\ Reenters
    /\ invoked' = Append(invoked, Invocation)
    /\ Subscribe(l, junk)
    /\ \E rest \in AfterInsert(_identify(LambdaAddress, AddressCastInt(0, junk))) :
          stack' = SetTop([Top EXCEPT !.todo = rest])
    /\ UNCHANGED <<outcome, historyVars>>

\* a slip in which a fire inside a fire is refused
Nested_refused(e, order) ==
    stack' = Append(SetTop([Top EXCEPT !.todo = Tail(@), !.cur = Head(Top.todo)]),
                    Frame(e, << >>, Len(invoked) + 1))

\* the range-for of a fire called by a handler starts at begin(), on top of
\* the range-for that invoked the handler
Nested(e, order) ==
    stack' = Append(SetTop([Top EXCEPT !.todo = Tail(@), !.cur = Head(Top.todo)]),
                    Frame(e, order, Len(invoked) + 1))

\* the invoked handler calls event.fire(e); the table has not changed since
\* the fire that invoked it began, so begin()..end() walks it in the same order
HandlerFires(e) ==
    /\ Reenters
    /\ Depth < MaxDepth
    /\ subscribers = outcome.snap
    /\ invoked' = Append(invoked, Invocation)
    /\ Nested(e, Top.order)
    /\ lastOp' = Op("fire", Zero64, NoHandler, "none", e)
    /\ nops' = nops + 1
    /\ UNCHANGED <<subscribers, calls, bindState, regSeq, flipped, outcome,
                   historyVars>>

\* the iterator reached end(): fire returns, to the publisher or to the
\* handler that called it, which then returns
FireReturn ==
    /\ stack # << >>
    /\ Top.todo = << >>
    /\ IF Depth = 1
       THEN /\ stack' = << >>
            /\ outcome' = [outcome EXCEPT !.state = "returned"]
       ELSE /\ stack' = [i \in 1..(Depth - 1) |->
                            IF i = Depth - 1
                            THEN [stack[i] EXCEPT !.cur = Zero64]
                            ELSE stack[i]]
            /\ UNCHANGED outcome
    /\ UNCHANGED <<subscribers, calls, lastOp, bindState, regSeq, flipped, nops,
                   invoked, historyVars>>

\* an operation called before the fire of a stepwise run
TopLevel ==
    /\ outcome = NoFire
    /\ nops < MaxSetup
    /\ UNCHANGED <<dispatchVars, historyVars>>

\* the operations that set the table up for a stepwise fire
SetupNext ==
    \/ \E m \in Members, r \in Receivers, flag \in EventFlag :
          Bind(m, r, flag) /\ TopLevel
    \/ \E m \in Members, r \in Receivers : Unbind(m, r) /\ TopLevel
    \/ \E l \in Lambdas, junk \in IntCastJunk : Subscribe(l, junk) /\ TopLevel

\* a fire whose handlers return or throw
DispatchNext ==
    \/ SetupNext
    \/ \E e \in EventArgs : FireBegin(e)
    \/ \E e \in EventArgs : CallBegin(e)
    \/ HandlerReturns
    \/ HandlerRaises
    \/ FireReturn

SpecDispatch == Init /\ [][DispatchNext]_vars

\* a fire during which a handler binds, subscribes or unbinds
ReentrantNext ==
    \/ SetupNext
    \/ \E e \in EventArgs : FireBegin(e)
    \/ HandlerReturns
    \/ \E m \in Members, r \in Receivers : HandlerUnbinds(m, r)
    \/ \E m \in Members, r \in Receivers, flag \in EventFlag :
          HandlerBinds(m, r, flag)
    \/ \E l \in Lambdas, junk \in IntCastJunk : HandlerSubscribes(l, junk)
    \/ FireReturn

SpecReentrant == Init /\ [][ReentrantNext]_vars

\* a fire during which a handler fires the event again
RefireNext ==
    \/ SetupNext
    \/ \E e \in EventArgs : FireBegin(e)
    \/ HandlerReturns
    \/ \E e \in EventArgs : HandlerFires(e)
    \/ FireReturn

\* a handler that was called returns or calls fire, and a fire whose loop is
\* at end() returns: nothing in the program suspends them
SpecRefire ==
    /\ Init
    /\ [][RefireNext]_vars
    /\ WF_vars(HandlerReturns)
    /\ WF_vars(FireReturn)

-----------------------------------------------------------------------------
\* the positions of the dispatch log at which identity a was invoked
InvocationsOf(a) == {i \in 1..Len(invoked) : invoked[i].id = a}

\* the identities of a sequence
Range(seq) == {seq[i] : i \in 1..Len(seq)}

(* C11: when a subscriber raises during fire, the failure leaves fire (no   *)
(* loop is left running), the raiser is the last handler invoked, no        *)
(* subscriber after it in the iteration is invoked, none is invoked twice,  *)
(* and the table is the one fire began with.                                *)
C11_RaisePropagates ==
    outcome.state = "raised" =>
        /\ stack = << >>
        /\ outcome.todo # << >>
        /\ invoked # << >>
        /\ invoked[Len(invoked)].id = Head(outcome.todo)
        /\ \A a \in Range(Tail(outcome.todo)) : InvocationsOf(a) = {}
        /\ \A a \in DOMAIN outcome.snap : Cardinality(InvocationsOf(a)) <= 1
        /\ subscribers = outcome.snap

\* the first of two subscribers raised and the second was skipped
C11_Witness ==
    /\ outcome.state = "raised"
    /\ Len(outcome.todo) = 2
    /\ Len(invoked) = 1

(* C12: fire and the call operator on an empty table invoke no handler and  *)
(* return normally, also when the table was emptied by unbinds.             *)
C12_EmptyFireReturns ==
    (outcome.state # "idle" /\ DOMAIN outcome.snap = {}) =>
        /\ invoked = << >>
        /\ outcome.state \in {"running", "returned"}
        /\ outcome.state = "running" => ENABLED FireReturn
        /\ outcome.state = "returned" => stack = << >>
        /\ subscribers = outcome.snap

\* a fire returned on a table that an unbind had emptied
C12_Witness ==
    /\ outcome.state = "returned"
    /\ DOMAIN outcome.snap = {}
    /\ \E p \in Pairs : bindState[p] = "unbound"

(* C13: when a fire in which no handler raised has returned, every          *)
(* subscriber registered when it began was invoked exactly once, also when  *)
(* a handler bound, subscribed or unbound on the event meanwhile.           *)
C13_AllInvokedOnceDespiteChanges ==
    outcome.state = "returned" =>
        \A a \in DOMAIN outcome.snap :
            /\ Cardinality(InvocationsOf(a)) = 1
            /\ \A i \in InvocationsOf(a) : invoked[i].h = outcome.snap[a]

-----------------------------------------------------------------------------
(* Round trip: bind(m, r) immediately followed by unbind(m, r), on a table  *)
(* that earlier operations have set up.                                     *)

\* an operation called before the round trip
BeforeRoundTrip ==
    /\ saved = NothingSaved
    /\ nops < MaxSetup
    /\ UNCHANGED <<dispatchVars, historyVars>>

\* event.bind(&C::member, instance, flag) of a pair that is not bound
RoundTripBind(m, r, flag) ==
    /\ saved = NothingSaved
    /\ bindState[<<m, r>>] # "bound"
    /\ Bind(m, r, flag)
    /\ saved' = [phase |-> "bound", tbl |-> subscribers, pair |-> <<m, r>>]
    /\ UNCHANGED <<dispatchVars, liveIds>>

\* event.unbind(&C::member, instance) of the pair just bound
RoundTripUnbind ==
    /\ saved.phase = "bound"
    /\ Unbind(saved.pair[1], saved.pair[2])
    /\ saved' = [saved EXCEPT !.phase = "done"]
    /\ UNCHANGED <<dispatchVars, liveIds>>

RoundTripNext ==
    \/ \E m \in Members, r \in Receivers, flag \in EventFlag :
          Bind(m, r, flag) /\ BeforeRoundTrip
    \/ \E m \in Members, r \in Receivers : Unbind(m, r) /\ BeforeRoundTrip
    \/ \E l \in Lambdas, junk \in IntCastJunk :
          Subscribe(l, junk) /\ BeforeRoundTrip
    \/ \E m \in Members, r \in Receivers, flag \in EventFlag :
          RoundTripBind(m, r, flag)
    \/ RoundTripUnbind

SpecRoundTrip == Init /\ [][RoundTripNext]_vars

(* C15: for a pair that is not bound, bind(m, r) immediately followed by    *)
(* unbind(m, r) leaves the table exactly as it was before the bind: the     *)
(* same identities with the same callables.                                 *)
C15_BindUnbindRoundTrip ==
    saved.phase = "done" => subscribers = saved.tbl

-----------------------------------------------------------------------------
\* the identities that the k-th fire in progress has invoked so far, in order
InvokedBy(k) ==
    LET own == SelectSeq([i \in 1..Len(invoked) |-> i],
                         LAMBDA i : i > stack[k].start /\ invoked[i].depth = k)
    IN  [j \in 1..Len(own) |-> invoked[own[j]].id]

\* A fire called by a handler walks the whole table, the entry of the calling
\* handler included, and while it is in progress the fires below it do not
\* move: every call made since it began belongs to it or to a fire above it.
NestedFireIsComplete ==
    \A k \in 2..Depth :
        /\ Range(stack[k].order) = DOMAIN subscribers
        /\ stack[k - 1].cur \in Range(stack[k].order)
        /\ InvokedBy(k) \o stack[k].todo = stack[k].order
        /\ \A i \in 1..Len(invoked) : i > stack[k].start => invoked[i].depth >= k

\* no subscriber registered when the fire began calls the event
NoReentrantSubscriber ==
    \A a \in DOMAIN outcome.snap : outcome.snap[a] # ReentrantHandler

(* C16: dispatch has no cycle protection: a fire called by a subscriber     *)
(* while it is invoked runs a complete dispatch over every registered       *)
(* subscriber, that subscriber included, before the outer fire continues;   *)
(* and when no subscriber is re-entrant and every subscriber returns, a     *)
(* fire that has begun returns.                                             *)
C16_NestedFireRunsToCompletion ==
    /\ []NestedFireIsComplete
    /\ (outcome.state = "running" /\ NoReentrantSubscriber)
           ~> (outcome.state = "returned")

\* an outer fire went on and returned after a nested fire had invoked the
\* re-entrant subscriber again
C16_Witness ==
    /\ outcome.state = "returned"
    /\ \E i, j, k \in 1..Len(invoked) :
          /\ i < j /\ j < k
          /\ invoked[i].depth = 1 /\ invoked[i].h = ReentrantHandler
          /\ invoked[j].depth = 2 /\ invoked[j].h = ReentrantHandler
          /\ invoked[k].depth = 1

-----------------------------------------------------------------------------
(* The table's size: the public operations, hasSubscriber among them, with  *)
(* the identities registered and not unbound since kept as a history.       *)

MaxTableOps == 4

\* the addresses hasSubscriber is asked about: every identity a pair or a
\* lambda can get, and one that nothing gets
Addresses ==
    {IdOf(p) : p \in Pairs}
        \cup {_identify(LambdaAddress, AddressCastInt(0, junk)) : junk \in IntCastJunk}
        \cup {Zero64}

\* history kept beside an operation: the identity it registers or unbinds
Tracked(ids) ==
    /\ nops < MaxTableOps
    /\ liveIds' = ids
    /\ UNCHANGED <<dispatchVars, saved>>

\* event.hasSubscriber(a)
HasSubscriber(a) ==
    /\ nops < MaxOps
    /\ lastOp' = [result |-> hasSubscriber(subscribers, a)]
                     @@ Op("hasSubscriber", a, NoHandler, "none", "none")
    /\ calls' = << >>
    /\ nops' = nops + 1
    /\ UNCHANGED <<subscribers, bindState, regSeq, flipped>>

TableNext ==
    \/ \E m \in Members, r \in Receivers, flag \in EventFlag :
          Bind(m, r, flag) /\ Tracked(liveIds \cup {IdOf(<<m, r>>)})
    \/ \E m \in Members, r \in Receivers :
          Unbind(m, r) /\ Tracked(liveIds \ {IdOf(<<m, r>>)})
    \/ \E l \in Lambdas, junk \in IntCastJunk :
          /\ Subscribe(l, junk)
          /\ Tracked(liveIds \cup {_identify(LambdaAddress, AddressCastInt(0, junk))})
    \/ \E e \in EventArgs : Fire(e) /\ Tracked(liveIds)
    \/ \E e \in EventArgs : Call(e) /\ Tracked(liveIds)
    \/ \E a \in Addresses : HasSubscriber(a) /\ Tracked(liveIds)

SpecTable == Init /\ [][TableNext]_vars

\* by how much the last operation changed the number of entries
SizeChange == Size(subscribers) - Size(lastOp.before)

(* C18: the table has one entry for each identity that was registered and   *)
(* not unbound since, and no other; bind and subscribe change its size by   *)
(* 0 or +1, unbind by 0 or -1, fire and hasSubscriber by 0.                 *)
C18_SizeCountsLiveIdentities ==
    /\ DOMAIN subscribers = liveIds
    /\ Size(subscribers) = Cardinality(liveIds)
    /\ lastOp.op \in {"bind", "subscribe"} => SizeChange \in {0, 1}
    /\ lastOp.op = "unbind" => SizeChange \in {0, -1}
    /\ lastOp.op \in {"fire", "hasSubscriber"} => subscribers = lastOp.before

\* hasSubscriber found the one entry left after two binds and an unbind
C18_Witness ==
    /\ lastOp.op = "hasSubscriber"
    /\ lastOp.result
    /\ Size(subscribers) = 1
    /\ \E p \in Pairs : bindState[p] = "unbound" /\ IdOf(p) \notin liveIds

====
